---- MODULE Spec2Model ----
(***************************************************************************)
(* Model of the autodelegate daemon (src/bin/autodelegate-daemon.mjs) and  *)
(* of the submit command (src/bin/autodelegate-submit.mjs): the file queue *)
(* inbox / processing / completed / failed, startup recovery, the claim by *)
(* rename, payload validation, routing, the agent run, and the retry /     *)
(* terminal decision.  Several daemon processes share one store.  Each     *)
(* action is one stretch of code between two points at which another      *)
(* process can touch the store.                                            *)
(***************************************************************************)
EXTENDS Integers, Sequences, FiniteSets, TLC

\* ------------------------------------------------------------------ bounds
MaxTasks  == 1   \* task files placed in inbox over a run
MaxStarts == 3   \* daemon startups (each one runs recovery) over a run
MaxSignals == 1  \* SIGINT / SIGTERM signals sent over a run
MaxSoloTasks == 2  \* task files placed in inbox in the runs of a single daemon
MaxAgents == 2   \* agents of a registry handed to the router on its own
MaxOrder == 2    \* entries of a routingOrder handed to the router on its own
MaxArgs == 2        \* defaultArgs and commandArgs handed to the runner on its own
MaxAgentFiles == 2  \* agent files per directory handed to the loader on its own

\* The daemon processes that share the store; "d1" names the one that is
\* started first.
Daemons == {"d1", "d2"}

\* ------------------------------------------------------- program constants
\* DEFAULT_CONFIG.defaultMaxAttempts
DefaultMaxAttempts == 2
\* the fallback of `task.maxAttempts ?? config.defaultMaxAttempts ?? 1`
FallbackMaxAttempts == 1
\* `task.attempt ?? 0`
FallbackAttempt == 0
\* the default of --max-attempts in the submit command
SubmitMaxAttempts == 2
\* DEFAULT_CONFIG.pollIntervalMs and the fallback of effectivePoll
DefaultPollMs == 5000
\* options.pollMs when --poll-ms is not given
NoPollFlag == 0
\* the length kept by `.slice(0, 5000)` for lastError
LastErrorLimit == 5000

\* A JSON field that is absent (undefined) is written Absent for numbers and
\* "" for strings.
Absent == -1

QueueDirs == {"inbox", "processing", "completed", "failed"}

\* --------------------------------------------------------------- file names
\* A file name is the sequence of its '-'-separated provenance prefixes
\* followed by the name the file was submitted under.  The time t of a
\* prefix is the value of Now at the move.
\*   <<"base", k>>        the k-th submitted name  (<stamp>-<slug>.json)
\*   <<"recovered", 0>>   recovered-
\*   <<"retry", t>>       retry-<Date.now()>-
\*   <<"waiting", t>>     waiting-<loopStamp>-
\*   <<"stamp", t>>       <Date.now()>-
\*   <<"Task", k>>        a name chosen by hand   (Task-<k>.json)
BaseName(k) == << <<"base", k>> >>
TaskName(k) == << <<"Task", k>> >>
RecoveredPrefix == <<"recovered", 0>>
RetryPrefix(t)   == <<"retry", t>>
WaitingPrefix(t) == <<"waiting", t>>
StampPrefix(t)   == <<"stamp", t>>

\* A clock that stands still.
NowFrozen(lg) == 0

\* Date.now() at a stamped move.  Every stamped move is followed by an
\* appended event, and the number of events logged so far serves as the
\* clock: a later move gets a later stamp.
Now(lg) == Len(lg)

\* moveFileToDir: targetName = `${prefix}-${baseName}`
PrefixedName(prefix, name) == <<prefix>> \o name

\* recoverProcessing: `recovered-${fileName}`
RecoveredName(name) == PrefixedName(RecoveredPrefix, name)

\* Rank of the first character of a token in the collation of localeCompare:
\* digits sort before letters, letters sort by the alphabet whatever their
\* case: "rec" < "ret" < "Tas" < "wai".
TokenRank(tok) ==
  CASE tok[1] = "base"      -> 0
    [] tok[1] = "stamp"     -> 0
    [] tok[1] = "recovered" -> 1
    [] tok[1] = "retry"     -> 2
    [] tok[1] = "Task"      -> 3
    [] tok[1] = "waiting"   -> 4

TokenLess(a, b) ==
  \/ TokenRank(a) < TokenRank(b)
  \/ TokenRank(a) = TokenRank(b) /\ a[2] < b[2]

\* a.localeCompare(b) < 0 on names: the first differing token decides.
NameLess(a, b) ==
  \E i \in 1..Len(a) :
     /\ i <= Len(b)
     /\ \A j \in 1..(i - 1) : a[j] = b[j]
     /\ TokenLess(a[i], b[i])

\* -------------------------------------------------------------------- texts
\* A text is a stretch of a named character source: the len characters of
\* src that start at offset from.  "stderr" is what the agent wrote to
\* standard error; the other sources are literals.
Text(src, from, len) == [src |-> src, from |-> from, len |-> len]
NoText == Text("", 0, 0)

Min(a, b) == IF a < b THEN a ELSE b

\* text.slice(start, end) for 0 <= start <= end
Slice(text, start, end) ==
  LET a == Min(start, text.len)
      b == Min(end, text.len)
  IN Text(text.src, text.from + a, b - a)

\* ------------------------------------------------------------ task payloads
\* json: "invalid" (does not parse), "null" (the JSON value null), "object".
\* prompt: "ok" (a non-blank string), "blank" (a string of white space),
\*         "none" (missing or not a string).
\* cwd: "" (absent or a string), "number" (a JSON number).
InvalidPayload == [json |-> "invalid", id |-> 0, prompt |-> "none", agent |-> "",
                   tool |-> "", cwd |-> "", maxAttempts |-> Absent,
                   attempt |-> Absent, lastError |-> NoText, lastTriedAt |-> ""]
NullPayload    == [InvalidPayload EXCEPT !.json = "null"]

\* The payload written by the submit command (attempt 0, maxAttempts >= 1).
SubmitPayload(id, maxAttempts) ==
  [json |-> "object", id |-> id, prompt |-> "ok", agent |-> "", tool |-> "",
   cwd |-> "", maxAttempts |-> maxAttempts, attempt |-> 0, lastError |-> NoText,
   lastTriedAt |-> ""]

\* Task files written by hand: no maxAttempts, no attempt, any prompt.
HandPayload(id, prompt) ==
  [json |-> "object", id |-> id, prompt |-> prompt, agent |-> "", tool |-> "",
   cwd |-> "", maxAttempts |-> Absent, attempt |-> Absent, lastError |-> NoText,
   lastTriedAt |-> ""]

\* What a submitter can place in inbox as its id-th file.
SubmittedPayloads(id) ==
  {SubmitPayload(id, m) : m \in {1, SubmitMaxAttempts}}
HandWrittenPayloads(id) ==
  {InvalidPayload, NullPayload} \cup {HandPayload(id, p) : p \in {"ok", "blank", "none"}}

\* A task file written by hand whose cwd is a number.
NumberCwdPayload(id) == [HandPayload(id, "ok") EXCEPT !.cwd = "number"]

\* --------------------------------------------------------- agents and config
AgentWt   == [name |-> "alpha", command |-> "alpha-cli", useWorktree |-> TRUE]
NoAgent   == [name |-> "", command |-> "", useWorktree |-> FALSE]

\* What a failing agent wrote to standard error in this model: more than
\* LastErrorLimit characters.
LongStderr == Text("stderr", 0, LastErrorLimit + 1)

\* The results of spawnSync in this model: exit code 0, exit code 1 and a
\* kill by a signal (status null).
AgentResults == {[status |-> "0", stderr |-> NoText],
                 [status |-> "1", stderr |-> LongStderr],
                 [status |-> "null", stderr |-> LongStderr]}

\* The registries a load can produce in this model.
AgentLists == {<< >>, <<AgentWt>>}

\* The configurations a load can produce in this model.
Configs == {[defaultMaxAttempts |-> m, routingOrder |-> << >>,
             pollIntervalMs |-> DefaultPollMs,
             cleanupWorktreeOnSuccess |-> FALSE,
             cleanupWorktreeOnFailure |-> FALSE] : m \in {1, DefaultMaxAttempts}}

\* The configurations with every choice of the two cleanup flags.
CleanupConfigs ==
  {[defaultMaxAttempts |-> DefaultMaxAttempts, routingOrder |-> << >>,
    pollIntervalMs |-> DefaultPollMs,
    cleanupWorktreeOnSuccess |-> s, cleanupWorktreeOnFailure |-> f] :
      s \in BOOLEAN, f \in BOOLEAN}

\* options.pollMs || Number(config.pollIntervalMs) || 5000
EffectivePoll(pollMs, config) ==
  IF pollMs # 0 THEN pollMs
  ELSE IF config.pollIntervalMs # 0 THEN config.pollIntervalMs
  ELSE DefaultPollMs

\* agents.find((agent) => agent.name === name): index of the first match,
\* 0 if none.
FindByName(agents, name) ==
  IF \E i \in 1..Len(agents) : agents[i].name = name
  THEN CHOOSE i \in 1..Len(agents) :
         agents[i].name = name /\ \A j \in 1..(i - 1) : agents[j].name # name
  ELSE 0

\* agents.find((agent) => agent.command === tool)
FindByCommand(agents, tool) ==
  IF \E i \in 1..Len(agents) : agents[i].command = tool
  THEN CHOOSE i \in 1..Len(agents) :
         agents[i].command = tool /\ \A j \in 1..(i - 1) : agents[j].command # tool
  ELSE 0

\* the loop over config.routingOrder
RECURSIVE RouteByOrder(_, _, _)
RouteByOrder(order, agents, k) ==
  IF k > Len(order) THEN 0
  ELSE LET i == FindByName(agents, order[k])
       IN IF i # 0 THEN i ELSE RouteByOrder(order, agents, k + 1)

\* The early return taken when agents are loaded instead of when none is.
NoAgentsWhenSome(agents) == Len(agents) # 0

\* The early return on an empty registry left out: the iteration goes on to
\* the claim and to the `if (!agent)` branch after pickAgent.
NoAgentsIgnored(agents) == FALSE

\* processOneTask: `if (!agents.length) { log(...); return true; }`
NoAgents(agents) == Len(agents) = 0

\* A router that looks at task.tool before task.agent.
pickAgentToolFirst(task, agents, config) ==
  IF Len(agents) = 0 THEN NoAgent
  ELSE
    LET named  == IF task.agent # "" THEN FindByName(agents, task.agent) ELSE 0
        byTool == IF task.tool # "" THEN FindByCommand(agents, task.tool) ELSE 0
        routed == RouteByOrder(config.routingOrder, agents, 1)
    IN IF byTool # 0 THEN agents[byTool]
       ELSE IF named # 0 THEN agents[named]
       ELSE IF routed # 0 THEN agents[routed]
       ELSE agents[1]

\* pickAgent: NoAgent stands for null.
pickAgent(task, agents, config) ==
  IF Len(agents) = 0 THEN NoAgent
  ELSE
    LET named  == IF task.agent # "" THEN FindByName(agents, task.agent) ELSE 0
        byTool == IF task.tool # "" THEN FindByCommand(agents, task.tool) ELSE 0
        routed == RouteByOrder(config.routingOrder, agents, 1)
    IN IF named # 0 THEN agents[named]
       ELSE IF byTool # 0 THEN agents[byTool]
       ELSE IF routed # 0 THEN agents[routed]
       ELSE agents[1]

\* commandExists(command): the commands `which` resolves on this host.
InstalledCommands == {"alpha-cli", "beta-cli"}
commandExists(command) == command \in InstalledCommands

\* byName.set(agent.name, ...): a Map keeps the position of a key it already
\* holds and appends a new one.
SetByName(byName, agent) ==
  LET i == FindByName(byName, agent.name)
  IN IF i # 0 THEN [byName EXCEPT ![i] = agent] ELSE Append(byName, agent)

\* JSON values of an agent file that the loader converts: a string or a
\* number with its decimal text; String(x) keeps the text and yields a string.
JStr(text) == [type |-> "string", text |-> text]
JNum(text) == [type |-> "number", text |-> text]
StringOf(value) == [type |-> "string", text |-> value.text]
MapString(items) == [i \in 1..Len(items) |-> StringOf(items[i])]

\* promptMode: agent.promptMode === 'stdin' ? 'stdin' : 'argument'
NormalPromptMode(promptMode) == IF promptMode = "stdin" THEN "stdin" ELSE "argument"
\* defaultArgs: Array.isArray(agent.defaultArgs) ? agent.defaultArgs.map(String) : []
NormalDefaultArgs(defaultArgs) ==
  IF defaultArgs.isArray THEN MapString(defaultArgs.items) ELSE << >>
\* useWorktree: agent.useWorktree !== false, on the JSON token of the file
\* ("" when the key is missing).
NormalUseWorktree(useWorktree) == useWorktree # "false"

LoadFileUnnormalised(byName, agent) ==
  IF agent.json # "object" THEN byName
  ELSE IF ~agent.enabled THEN byName
  ELSE IF agent.name = "" \/ agent.command = "" THEN byName
  ELSE IF ~commandExists(agent.command) THEN byName
  ELSE SetByName(byName, [name |-> agent.name, command |-> agent.command,
                          enabled |-> agent.enabled,
                          promptMode |-> agent.promptMode,
                          defaultArgs |-> NormalDefaultArgs(agent.defaultArgs),
                          useWorktree |-> NormalUseWorktree(agent.useWorktree),
                          dir |-> agent.dir])

\* The body of the loop over the files of one directory.  A file is a record
\* [json, name, command, enabled, promptMode, defaultArgs, useWorktree, dir]:
\* json is "invalid" for a text JSON.parse rejects and "null" for the JSON
\* value null (readJson or `agent.enabled` throws, the catch logs and the
\* loop goes on); enabled is FALSE for `"enabled": false` only; "" stands
\* for a missing name, command or promptMode; dir for the rest of the file's
\* content (`...agent`).
LoadFile(byName, agent) ==
  IF agent.json # "object" THEN byName
  ELSE IF ~agent.enabled THEN byName
  ELSE IF agent.name = "" \/ agent.command = "" THEN byName
  ELSE IF ~commandExists(agent.command) THEN byName
  ELSE SetByName(byName, [name |-> agent.name, command |-> agent.command,
                          enabled |-> agent.enabled,
                          promptMode |-> NormalPromptMode(agent.promptMode),
                          defaultArgs |-> NormalDefaultArgs(agent.defaultArgs),
                          useWorktree |-> NormalUseWorktree(agent.useWorktree),
                          dir |-> agent.dir])

RECURSIVE LoadDir(_, _, _)
LoadDir(byName, agentFiles, k) ==
  IF k > Len(agentFiles) THEN byName
  ELSE LoadDir(LoadFile(byName, agentFiles[k]), agentFiles, k + 1)

\* loadAgents(agentsDirs): agentsDirs is a sequence of directories, each the
\* sequence of its *.agent.json files in listFiles order.
RECURSIVE LoadDirs(_, _, _)
LoadDirs(byName, agentsDirs, k) ==
  IF k > Len(agentsDirs) THEN byName
  ELSE LoadDirs(LoadDir(byName, agentsDirs[k], 1), agentsDirs, k + 1)
loadAgents(agentsDirs) == LoadDirs(<< >>, agentsDirs, 1)

\* `[globalAgentsDir, dirs.agents]`: the shared directory first.
agentSources(global, local) == <<global, local>>

\* runAgent(agent, task, prompt, cwd): what spawnSync is called with, argv
\* without the command and the `input` option (stdin is FALSE when the
\* option is not given).  task.commandArgs is [isArray, items] as read from
\* the task file.
runAgentArgsSwapped(agent, task) ==
  (IF task.commandArgs.isArray THEN MapString(task.commandArgs.items) ELSE << >>)
    \o agent.defaultArgs
runAgentArgs(agent, task) ==
  agent.defaultArgs
    \o (IF task.commandArgs.isArray THEN MapString(task.commandArgs.items) ELSE << >>)

runAgent(agent, task, prompt) ==
  IF agent.promptMode = "stdin"
  THEN [argv |-> runAgentArgs(agent, task), stdin |-> TRUE, input |-> prompt]
  ELSE [argv |-> Append(runAgentArgs(agent, task), JStr(prompt)),
        stdin |-> FALSE, input |-> ""]

\* ------------------------------------------------------------------- state
VARIABLES
  files,      \* the queue store: records [ino, dir, name, origin, viaSubmit, content]
  nextIno,    \* inode numbers handed out so far
  submitted,  \* number of task files placed in inbox so far
  log,        \* daemon.log: the sequence of appended events
  runs,       \* the run directories: records [id, attempt, summary, exitCode]
  proc,       \* per daemon: position in main/processOneTask and its locals
  starts,     \* daemon startups so far
  execs,      \* per submission: agent processes spawned for it so far
  stop,       \* per daemon: "none", "sent" (a stop signal has reached the
              \* process, its handler has not run), "set" (shouldStop)
  signals,    \* stop signals sent so far
  probe       \* input and result of a function applied on its own

vars == <<files, nextIno, submitted, log, runs, proc, starts, execs, stop, signals, probe>>

\* The locals of a daemon that is not running or is between two iterations.
\* pc: "stopped" (not running), "exited" (process.exit(1) after an uncaught
\* exception), "top" (loop top), "claim" (before renameSync),
\* "handle" (after the claim), "run" (agent running), "move" (task file
\* rewritten for a retry, before its move back to inbox).
\* ret: why the last processOneTask returned early: "noagent" (no agent is
\* loaded), "lost" (the claiming rename threw), "slept" (inbox was empty and
\* the loop has slept for poll milliseconds).
\* worktree: a worktree was created for the claimed task.
\* cleanup: cleanupWorktree was called at the end of the last iteration.
\* ino, origin, viaSubmit: the file the claim took (not program state).
Idle(pc) ==
  [pc |-> pc, ret |-> "", poll |-> 0, fileName |-> << >>, ino |-> 0, origin |-> 0,
   viaSubmit |-> FALSE,
   config |-> [defaultMaxAttempts |-> DefaultMaxAttempts, routingOrder |-> << >>,
               pollIntervalMs |-> DefaultPollMs,
               cleanupWorktreeOnSuccess |-> FALSE,
               cleanupWorktreeOnFailure |-> FALSE],
   agents |-> << >>, task |-> InvalidPayload, agent |-> NoAgent,
   worktree |-> FALSE, outcome |-> "", cleanup |-> FALSE]

\* No function is being applied on its own.
NoProbe == [fn |-> ""]

InitStore ==
  /\ files = {}
  /\ nextIno = 0
  /\ submitted = 0
  /\ log = << >>
  /\ runs = {}
  /\ proc = [d \in Daemons |-> Idle("stopped")]
  /\ starts = 0
  /\ execs = [k \in 1..(MaxTasks + MaxSoloTasks) |-> 0]
  /\ stop = [d \in Daemons |-> "none"]
  /\ signals = 0

Init == InitStore /\ probe = NoProbe

\* ------------------------------------------------------------ store helpers
InDir(fs, dir) == {f \in fs : f.dir = dir}
At(fs, dir, name) == {f \in fs : f.dir = dir /\ f.name = name}
Exists(fs, dir, name) == At(fs, dir, name) # {}

\* A rename that leaves the source path in place (a copy).
RenameKeepingSource(fs, f, dir, name) ==
  (fs \ At(fs, dir, name)) \cup {[f EXCEPT !.dir = dir, !.name = name]}

\* fs.renameSync(source, target): the file keeps its inode and content and
\* replaces whatever was at the target path.
Rename(fs, f, dir, name) ==
  (fs \ ({f} \cup At(fs, dir, name))) \cup {[f EXCEPT !.dir = dir, !.name = name]}

\* listFiles(dir, '.json'): the names in dir, sorted; taskFiles[0] is Least.
listFiles(fs, dir) == {f.name : f \in InDir(fs, dir)}
Least(names) == CHOOSE n \in names : \A m \in names \ {n} : NameLess(n, m)

\* ------------------------------------------------------------- submission
\* A task file appears in inbox under a fresh name.  origin (which
\* submission a file stems from) and viaSubmit (written by the submit
\* command) are not on disk; they follow the file for the properties.
PlaceNamed(p, viaSubmit, name, max) ==
  /\ submitted < max
  /\ submitted' = submitted + 1
  /\ nextIno' = nextIno + 1
  /\ files' = files \cup {[ino |-> nextIno + 1, dir |-> "inbox", name |-> name,
                           origin |-> submitted + 1, viaSubmit |-> viaSubmit,
                           content |-> p]}
  /\ UNCHANGED <<log, runs, proc, starts, execs, stop, signals, probe>>

Place(p, viaSubmit) == PlaceNamed(p, viaSubmit, BaseName(submitted + 1), MaxTasks)

\* autodelegate-submit
SubmitTask == \E p \in SubmittedPayloads(submitted + 1) : Place(p, TRUE)

\* a file written into inbox by hand or by another tool
PlaceFile == \E p \in HandWrittenPayloads(submitted + 1) : Place(p, FALSE)

\* ---------------------------------------------------------------- recovery
\* recoverProcessing: every file of processing is renamed to
\* inbox/recovered-<name>; content and inode are kept.
RECURSIVE RecoverAll(_, _)
RecoverAll(fs, stale) ==
  IF stale = {} THEN fs
  ELSE LET n == Least(stale)
           f == CHOOSE f \in At(fs, "processing", n) : TRUE
       IN RecoverAll(Rename(fs, f, "inbox", RecoveredName(n)), stale \ {n})

recoverProcessing(fs) == RecoverAll(fs, listFiles(fs, "processing"))

\* A process that has ended has no pending signal and no shouldStop.
StopAfter(d) ==
  stop' = IF proc'[d].pc \in {"stopped", "exited"}
          THEN [stop EXCEPT ![d] = "none"] ELSE stop

\* main, up to the loop: a daemon process starts and recovers.
Start(d) ==
  /\ proc[d].pc \in {"stopped", "exited"}
  /\ d = "d1" \/ starts > 0
  /\ starts < MaxStarts
  /\ starts' = starts + 1
  /\ files' = recoverProcessing(files)
  /\ proc' = [proc EXCEPT ![d] = Idle("top")]
  /\ UNCHANGED <<nextIno, submitted, log, runs, execs, stop, signals, probe>>

\* The process is killed (SIGKILL, power loss) at any point.
Crash(d) ==
  /\ proc[d].pc \notin {"stopped", "exited"}
  /\ proc' = [proc EXCEPT ![d] = Idle("stopped")]
  /\ StopAfter(d)
  /\ UNCHANGED <<files, nextIno, submitted, log, runs, starts, execs, signals, probe>>

\* ------------------------------------------------------------ one iteration
\* main loop top and processOneTask up to the choice of the file: the
\* registry is reloaded, inbox is listed.  The configuration loaded here
\* gives the poll interval; its other fields are not read before the claim
\* has succeeded, and Handle draws them.
Iterate(d, ag, cfg) ==
  /\ proc[d].pc = "top"
  /\ stop[d] # "set"
  /\ LET taskFiles == listFiles(files, "inbox") IN
       IF taskFiles = {}
       THEN \* processOneTask returns false; `await sleep(effectivePoll)` lets
            \* the event loop run, and with it the handler of a pending signal
            /\ proc' = [proc EXCEPT ![d] =
                          [Idle("top") EXCEPT !.ret = "slept",
                                              !.poll = EffectivePoll(NoPollFlag, cfg)]]
            /\ stop' = [stop EXCEPT ![d] = IF @ = "sent" THEN "set" ELSE @]
       ELSE IF NoAgents(ag)
       THEN /\ proc' = [proc EXCEPT ![d] = [Idle("top") EXCEPT !.ret = "noagent"]]
            /\ UNCHANGED stop
       ELSE /\ proc' = [proc EXCEPT ![d] =
                          [Idle("claim") EXCEPT !.fileName = Least(taskFiles),
                                                !.agents = ag]]
            /\ UNCHANGED stop
  /\ UNCHANGED <<files, nextIno, submitted, log, runs, starts, execs, signals, probe>>

\* `while (!shouldStop)` with shouldStop set: the loop ends, main returns.
StopLoop(d) ==
  /\ proc[d].pc = "top"
  /\ stop[d] = "set"
  /\ proc' = [proc EXCEPT ![d] = Idle("stopped")]
  /\ StopAfter(d)
  /\ UNCHANGED <<files, nextIno, submitted, log, runs, starts, execs, signals, probe>>

\* SIGINT or SIGTERM reaches a running daemon process.  The handlers
\* registered with process.on run from the event loop, that is while main
\* waits in `await sleep(...)`; every other await of the loop is on a promise
\* that is already settled and resumes without a turn of the event loop.
Signal(d) ==
  /\ proc[d].pc \notin {"stopped", "exited"}
  /\ stop[d] = "none"
  /\ signals < MaxSignals
  /\ signals' = signals + 1
  /\ stop' = [stop EXCEPT ![d] = "sent"]
  /\ UNCHANGED <<files, nextIno, submitted, log, runs, proc, starts, execs, probe>>

\* fs.renameSync(inboxPath, processingPath) and its catch
Claim(d) ==
  /\ proc[d].pc = "claim"
  /\ LET src == At(files, "inbox", proc[d].fileName) IN
       IF src # {}
       THEN LET f == CHOOSE f \in src : TRUE IN
            /\ files' = Rename(files, f, "processing", f.name)
            /\ proc' = [proc EXCEPT ![d].pc = "handle", ![d].ino = f.ino,
                                    ![d].origin = f.origin,
                                    ![d].viaSubmit = f.viaSubmit]
       ELSE /\ files' = files
            /\ proc' = [proc EXCEPT ![d] = [Idle("top") EXCEPT !.ret = "lost"]]
  /\ UNCHANGED <<nextIno, submitted, log, runs, starts, execs, stop, signals, probe>>

\* One record of daemon.log.  task is the submission the handled file stems
\* from; attempt is Absent except in a retrying event; error is
\* String(error) of the exception caught, "" in an event without it.
\* An event that is always logged with status failed.
EventAlwaysFailed(status, reason, task, attempt, file, error) ==
  [status |-> "failed", reason |-> reason, task |-> task, attempt |-> attempt,
   file |-> file, error |-> error]

Event(status, reason, task, attempt, file, error) ==
  [status |-> status, reason |-> reason, task |-> task, attempt |-> attempt,
   file |-> file, error |-> error]

\* String(error) for the exceptions of this model: JSON.parse failing, and
\* createWorktree throwing `git worktree add failed: ${stderr}`.
ParseError == "SyntaxError"
WorktreeError == "Error: git worktree add failed: <git stderr>"

\* A move that leaves the claimed file where it is.
MoveClaimedNowhere(fs, fileName, dir, prefix) == fs

\* moveFileToDir(processingPath, targetDir, prefix) on the claimed file
MoveClaimed(fs, fileName, dir, prefix) ==
  LET f == CHOOSE f \in At(fs, "processing", fileName) : TRUE
  IN Rename(fs, f, dir, PrefixedName(prefix, fileName))

\* Number(task.maxAttempts ?? config.defaultMaxAttempts ?? 1)
EffMaxAttempts(task, config) ==
  IF task.maxAttempts # Absent THEN task.maxAttempts
  ELSE IF config.defaultMaxAttempts # Absent THEN config.defaultMaxAttempts
  ELSE FallbackMaxAttempts

\* Number(task.attempt ?? 0)
EffAttempt(task) == IF task.attempt # Absent THEN task.attempt ELSE FallbackAttempt

\* A retry decision that ignores maxAttempts.
ShouldRetryAlways(attempt, maxAttempts) == TRUE

\* A retry decision that allows one attempt too many.
ShouldRetryOnceMore(attempt, maxAttempts) == attempt + 1 <= maxAttempts

\* A retry decision that counts the attempts made before this one only.
ShouldRetryBeforeCount(attempt, maxAttempts) == attempt < maxAttempts

\* attempt + 1 < maxAttempts
ShouldRetry(attempt, maxAttempts) == attempt + 1 < maxAttempts

\* An attempt counter that skips a value.
NextAttemptSkipping(attempt) == attempt + 2

\* task.attempt = attempt + 1
NextAttempt(attempt) == attempt + 1

\* `exit_${result.status}`
ExitReason(status) ==
  CASE status = "0" -> "exit_0" [] status = "1" -> "exit_1" [] status = "null" -> "exit_null"

\* The files of the run directory `${tsCompact()}-${slugify(taskId)}` are
\* written; summary is the status in summary.json, "" while that file is
\* not written.  The store keeps, per task id, the run directory written last.
WriteRun(rs, run) == {r \in rs : r.id # run.id} \cup {run}

\* resolveRunCwd: path.isAbsolute(taskCwd) throws a TypeError when task.cwd
\* is not a string.
CwdThrows(task) == task.cwd = "number"
CwdError == "TypeError [ERR_INVALID_ARG_TYPE]"

\* `if (config.cleanupWorktreeOn... && worktree) cleanupWorktree(...)` after
\* the move and the event of an outcome.  cleanupWorktree only logs when
\* `git worktree remove` fails.
Cleanup(config, outcome, worktree) ==
  /\ worktree
  /\ IF outcome = "completed" THEN config.cleanupWorktreeOnSuccess
     ELSE config.cleanupWorktreeOnFailure

\* A worktree failure that goes unnoticed.
WorktreeFailureIgnored(agent, wtOk) == FALSE

\* `if (agent.useWorktree) worktree = createWorktree(...)` throws when
\* `git worktree add` fails (wtOk false).
WorktreeFails(agent, wtOk) == agent.useWorktree /\ ~wtOk

\* processOneTask from readJson to the start of the agent: validation,
\* routing, the run directory, the worktree.  An exception that escapes
\* processOneTask ends the process (main().catch -> process.exit(1)).
Handle(d, cfg, wtOk) ==
  /\ proc[d].pc = "handle"
  /\ LET me == proc[d]
         here == At(files, "processing", me.fileName)
         task == (CHOOSE f \in here : TRUE).content
         agent == pickAgent(task, me.agents, cfg)
         failedName == PrefixedName(StampPrefix(Now(log)), me.fileName)
     IN
     IF here = {}
     THEN \* readJson throws ENOENT, and so does moveFileToDir in the catch
          /\ proc' = [proc EXCEPT ![d] = Idle("exited")]
          /\ UNCHANGED <<files, log, runs, execs>>
     ELSE IF task.json = "invalid"
     THEN /\ files' = MoveClaimed(files, me.fileName, "failed", StampPrefix(Now(log)))
          /\ log' = Append(log, Event("failed", "invalid_json", me.origin, Absent, failedName, ParseError))
          /\ proc' = [proc EXCEPT ![d] = Idle("top")]
          /\ UNCHANGED <<runs, execs>>
     ELSE IF task.json = "null"
     THEN \* task.id on null: TypeError outside every try block
          /\ proc' = [proc EXCEPT ![d] = Idle("exited")]
          /\ UNCHANGED <<files, log, runs, execs>>
     ELSE IF task.prompt # "ok"
     THEN /\ files' = MoveClaimed(files, me.fileName, "failed", StampPrefix(Now(log)))
          /\ log' = Append(log, Event("failed", "missing_prompt", me.origin, Absent, failedName, ""))
          /\ proc' = [proc EXCEPT ![d] = Idle("top")]
          /\ UNCHANGED <<runs, execs>>
     ELSE IF agent = NoAgent
     THEN /\ files' = MoveClaimed(files, me.fileName, "inbox", WaitingPrefix(Now(log)))
          /\ proc' = [proc EXCEPT ![d] = Idle("top")]
          /\ UNCHANGED <<log, runs, execs>>
     ELSE /\ runs' = WriteRun(runs, [id |-> task.id, attempt |-> task.attempt,
                                     summary |-> "", exitCode |-> ""])
          /\ IF WorktreeFails(agent, wtOk)
             THEN \* createWorktree throws; the catch of processOneTask
                  /\ files' = MoveClaimed(files, me.fileName, "failed", StampPrefix(Now(log)))
                  /\ log' = Append(log, Event("failed", "runtime_exception", me.origin, Absent, failedName, WorktreeError))
                  /\ proc' = [proc EXCEPT ![d] = Idle("top")]
                  /\ UNCHANGED execs
             ELSE IF CwdThrows(task)
             THEN \* resolveRunCwd throws after the worktree was created; the
                  \* catch of processOneTask, which calls no cleanupWorktree
                  /\ files' = MoveClaimed(files, me.fileName, "failed", StampPrefix(Now(log)))
                  /\ log' = Append(log, Event("failed", "runtime_exception", me.origin, Absent, failedName, CwdError))
                  /\ proc' = [proc EXCEPT ![d] = Idle("top")]
                  /\ UNCHANGED execs
             ELSE \* runAgent: the agent process is spawned
                  /\ proc' = [proc EXCEPT ![d].pc = "run", ![d].task = task,
                                          ![d].config = cfg,
                                          ![d].agent = agent, ![d].agents = << >>,
                                          ![d].worktree = agent.useWorktree]
                  /\ execs' = [execs EXCEPT ![me.origin] = @ + 1]
                  /\ UNCHANGED <<files, log>>
  /\ StopAfter(d)
  /\ UNCHANGED <<nextIno, submitted, starts, signals, probe>>

\* writeJson(processingPath, task): the file is overwritten in place, or
\* created when nothing is at the path.
WriteClaimed(fs, me, task, ino) ==
  LET here == At(fs, "processing", me.fileName) IN
  IF here # {}
  THEN (fs \ here) \cup {[f EXCEPT !.content = task] : f \in here}
  ELSE fs \cup {[ino |-> ino, dir |-> "processing", name |-> me.fileName,
                 origin |-> me.origin, viaSubmit |-> me.viaSubmit, content |-> task]}

\* Every finished task is filed under failed.
TargetDirAlwaysFailed(outcome) ==
  CASE outcome = "completed" -> "failed"
    [] outcome = "retrying"  -> "inbox"
    [] outcome = "failed"    -> "failed"

\* The destination of the claimed file for an outcome.
TargetDir(outcome) ==
  CASE outcome = "completed" -> "completed"
    [] outcome = "retrying"  -> "inbox"
    [] outcome = "failed"    -> "failed"

\* The prefix of moveFileToDir for an outcome: `retry-${Date.now()}` or
\* String(Date.now()).
TargetPrefix(outcome, t) == IF outcome = "retrying" THEN RetryPrefix(t) ELSE StampPrefix(t)

\* moveFileToDir of the claimed file, then appendEvent.  When the file is no
\* longer at processingPath, renameSync throws inside the try block and
\* again inside its catch, which ends the process.
Finish(d, outcome, reason, attempt) ==
  LET me == proc[d] IN
  IF ~Exists(files, "processing", me.fileName)
  THEN /\ proc' = [proc EXCEPT ![d] = Idle("exited")]
       /\ UNCHANGED <<files, log>>
  ELSE /\ files' = MoveClaimed(files, me.fileName, TargetDir(outcome), TargetPrefix(outcome, Now(log)))
       /\ log' = Append(log, Event(outcome, reason, me.origin, attempt,
                                   PrefixedName(TargetPrefix(outcome, Now(log)), me.fileName), ""))
       /\ proc' = [proc EXCEPT ![d] =
                     [Idle("top") EXCEPT !.cleanup = Cleanup(me.config, outcome, me.worktree)]]

\* (result.stderr || `exit_${result.status}`).slice(0, 5000)
LastError(stderr, status) ==
  Slice(IF stderr.len # 0 THEN stderr
        ELSE Text(ExitReason(status), 0, IF status = "null" THEN 9 ELSE 6),
        0, LastErrorLimit)

\* The agent process ends: run artifacts and summary.json are written and
\* the outcome is decided.  A completed or failed task is moved at once; for
\* a retry the task file is rewritten first, and Requeue moves it.
AgentExit(d, result) ==
  /\ proc[d].pc = "run"
  /\ LET me == proc[d]
         status == result.status
         stderr == result.stderr
         maxAttempts == EffMaxAttempts(me.task, me.config)
         attempt == EffAttempt(me.task)
         outcome == IF status = "0" THEN "completed"
                    ELSE IF ShouldRetry(attempt, maxAttempts) THEN "retrying"
                    ELSE "failed"
         retried == [me.task EXCEPT !.attempt = NextAttempt(attempt),
                                    !.lastError = LastError(stderr, status),
                                    !.lastTriedAt = "iso"]
         created == outcome = "retrying" /\ ~Exists(files, "processing", me.fileName)
     IN
     /\ runs' = WriteRun(runs, [id |-> me.task.id, attempt |-> me.task.attempt,
                                summary |-> IF status = "0" THEN "completed" ELSE "failed",
                                exitCode |-> status])
     /\ IF outcome = "retrying"
        THEN /\ files' = WriteClaimed(files, me, retried, nextIno + 1)
             /\ nextIno' = IF created THEN nextIno + 1 ELSE nextIno
             /\ proc' = [proc EXCEPT ![d].pc = "move", ![d].outcome = outcome,
                                     ![d].task = retried]
             /\ UNCHANGED log
        ELSE /\ Finish(d, outcome, IF outcome = "failed" THEN ExitReason(status) ELSE "", Absent)
             /\ UNCHANGED nextIno
  /\ StopAfter(d)
  /\ UNCHANGED <<submitted, starts, execs, signals, probe>>

\* The rewritten task file goes back to inbox, and the retrying event.
Requeue(d) ==
  /\ proc[d].pc = "move"
  /\ Finish(d, "retrying", "", proc[d].task.attempt)
  /\ StopAfter(d)
  /\ UNCHANGED <<nextIno, submitted, runs, starts, execs, signals, probe>>

Next ==
  \/ SubmitTask
  \/ PlaceFile
  \/ \E d \in Daemons : Start(d)
  \/ \E d \in Daemons : Crash(d)
  \/ \E d \in Daemons, ag \in AgentLists, cfg \in Configs : Iterate(d, ag, cfg)
  \/ \E d \in Daemons : Claim(d)
  \/ \E d \in Daemons, cfg \in Configs, wtOk \in BOOLEAN : Handle(d, cfg, wtOk)
  \/ \E d \in Daemons, result \in AgentResults : AgentExit(d, result)
  \/ \E d \in Daemons : Requeue(d)

\* Daemons that are killed at any point, and no stop request.
Spec == Init /\ [][Next]_vars

\* Daemons that are never killed and are stopped by SIGINT / SIGTERM, on
\* tasks created by the submit command.
StopNext ==
  \/ SubmitTask
  \/ \E d \in Daemons : Start(d)
  \/ \E d \in Daemons : Signal(d)
  \/ \E d \in Daemons : StopLoop(d)
  \/ \E d \in Daemons, ag \in AgentLists, cfg \in Configs : Iterate(d, ag, cfg)
  \/ \E d \in Daemons : Claim(d)
  \/ \E d \in Daemons, cfg \in Configs, wtOk \in BOOLEAN : Handle(d, cfg, wtOk)
  \/ \E d \in Daemons, result \in AgentResults : AgentExit(d, result)
  \/ \E d \in Daemons : Requeue(d)

StopSpec == Init /\ [][StopNext]_vars

\* -------------------------------------------------- a single daemon
\* One daemon process that is never killed from outside, on up to
\* MaxSoloTasks files: submitted ones, hand-written ones under a timestamp
\* name or a name of their own, with every choice of the cleanup flags.
SoloSubmit ==
  \E p \in SubmittedPayloads(submitted + 1) :
    PlaceNamed(p, TRUE, BaseName(submitted + 1), MaxSoloTasks)

SoloPlace ==
  \E p \in {InvalidPayload, NullPayload, HandPayload(submitted + 1, "ok"),
            NumberCwdPayload(submitted + 1)},
     name \in {BaseName(submitted + 1), TaskName(submitted + 1)} :
    PlaceNamed(p, FALSE, name, MaxSoloTasks)

SoloNext ==
  \/ SoloSubmit
  \/ SoloPlace
  \/ Start("d1")
  \/ \E ag \in AgentLists, cfg \in CleanupConfigs : Iterate("d1", ag, cfg)
  \/ Claim("d1")
  \/ \E cfg \in CleanupConfigs, wtOk \in BOOLEAN : Handle("d1", cfg, wtOk)
  \/ \E result \in AgentResults : AgentExit("d1", result)
  \/ Requeue("d1")

SoloSpec == Init /\ [][SoloNext]_vars

\* One daemon in continuous mode that is never killed and never asked to
\* stop, with an agent loaded in every iteration.  Each statement of main
\* and processOneTask is followed by the next one and every agent process
\* exits, hence the weak fairness of the daemon's step; a process that has
\* ended is started again (at most MaxStarts starts in all).
LoadedAgentLists == {ag \in AgentLists : ~NoAgents(ag)}

DaemonStep ==
  \/ Start("d1")
  \/ \E ag \in LoadedAgentLists, cfg \in Configs : Iterate("d1", ag, cfg)
  \/ Claim("d1")
  \/ \E cfg \in Configs, wtOk \in BOOLEAN : Handle("d1", cfg, wtOk)
  \/ \E result \in AgentResults : AgentExit("d1", result)
  \/ Requeue("d1")

LiveNext == SoloSubmit \/ SoloPlace \/ DaemonStep

LiveSpec == Init /\ [][LiveNext]_vars /\ WF_vars(DaemonStep)

\* ------------------------------------------------ the router on its own
\* Sequences over a set, of length at most n.
RECURSIVE SeqsUpTo(_, _)
SeqsUpTo(S, n) ==
  IF n = 0 THEN {<< >>}
  ELSE LET shorter == SeqsUpTo(S, n - 1)
       IN shorter \cup {Append(q, x) : q \in shorter, x \in S}
Range(q) == {q[i] : i \in 1..Len(q)}
Distinct(q) == Cardinality(Range(q)) = Len(q)

\* Registries as loadAgents returns them: non-empty names and commands, no
\* name twice, two agents possibly with one command.
AgentPool == {[name |-> "alpha", command |-> "alpha-cli", useWorktree |-> TRUE],
              [name |-> "beta", command |-> "beta-cli", useWorktree |-> TRUE],
              [name |-> "gamma", command |-> "alpha-cli", useWorktree |-> TRUE]}
Registries == {q \in SeqsUpTo(AgentPool, MaxAgents) : Distinct(q)}
AgentNames == {"alpha", "beta", "gamma"}
RoutingOrders == SeqsUpTo(AgentNames, MaxOrder)

RouterInit ==
  /\ InitStore
  /\ probe \in {[fn |-> "pickAgent:call",
                 task |-> [agent |-> a, tool |-> t],
                 agents |-> q,
                 config |-> [routingOrder |-> o]] :
                  a \in AgentNames \cup {""}, t \in {"", "alpha-cli", "beta-cli"},
                  q \in Registries, o \in RoutingOrders}

\* const agent = pickAgent(task, agents, config)
Route ==
  /\ probe.fn = "pickAgent:call"
  /\ probe' = [fn |-> "pickAgent", task |-> probe.task, agents |-> probe.agents,
               config |-> probe.config,
               result |-> pickAgent(probe.task, probe.agents, probe.config)]
  /\ UNCHANGED <<files, nextIno, submitted, log, runs, proc, starts, execs, stop,
                 signals>>

RouterNext == Route
RouterSpec == RouterInit /\ [][RouterNext]_vars

\* ------------------------------------------------ the loader on its own
\* The *.agent.json files a directory can hold in this model.
PlainFile(name, command, enabled, dir) ==
  [json |-> "object", name |-> name, command |-> command, enabled |-> enabled,
   promptMode |-> "", defaultArgs |-> [isArray |-> FALSE, items |-> << >>],
   useWorktree |-> "", dir |-> dir]
UnparsableFile(dir) == [PlainFile("", "", TRUE, dir) EXCEPT !.json = "invalid"]
NullFile(dir) == [PlainFile("", "", TRUE, dir) EXCEPT !.json = "null"]
\* {"name": "alpha", "command": "alpha-cli", "promptMode": "stdin",
\*  "defaultArgs": ["--yes", 1], "useWorktree": false}
StdinFile(dir) ==
  [PlainFile("alpha", "alpha-cli", TRUE, dir) EXCEPT
     !.promptMode = "stdin",
     !.defaultArgs = [isArray |-> TRUE, items |-> <<JStr("--yes"), JNum("1")>>],
     !.useWorktree = "false"]
\* {"name": "beta", "command": "beta-cli", "promptMode": "interactive",
\*  "defaultArgs": "--yes", "useWorktree": 0}
OddFile(dir) ==
  [PlainFile("beta", "beta-cli", TRUE, dir) EXCEPT
     !.promptMode = "interactive",
     !.defaultArgs = [isArray |-> FALSE, items |-> <<JStr("--yes")>>],
     !.useWorktree = "0"]
AgentFiles(dir) ==
  {PlainFile(n, c, e, dir) :
     n \in {"alpha", "beta"}, c \in {"alpha-cli", "ghost-cli"}, e \in BOOLEAN}
  \cup {PlainFile("", "alpha-cli", TRUE, dir), UnparsableFile(dir), NullFile(dir),
        StdinFile(dir), OddFile(dir)}

LoaderInit ==
  /\ InitStore
  /\ probe \in {[fn |-> "loadAgents:call", global |-> g, local |-> l] :
                  g \in SeqsUpTo(AgentFiles("shared"), MaxAgentFiles),
                  l \in SeqsUpTo(AgentFiles("local"), MaxAgentFiles)}

\* const agents = loadAgents(agentSources)
Load ==
  /\ probe.fn = "loadAgents:call"
  /\ probe' = [fn |-> "loadAgents", global |-> probe.global, local |-> probe.local,
               result |-> loadAgents(agentSources(probe.global, probe.local))]
  /\ UNCHANGED <<files, nextIno, submitted, log, runs, proc, starts, execs, stop,
                 signals>>

LoaderNext == Load
LoaderSpec == LoaderInit /\ [][LoaderNext]_vars

\* ------------------------------------------------ the runner on its own
\* defaultArgs as the loader leaves them (strings); commandArgs as a task
\* file can hold them: an array of strings and numbers, or a bare string.
RunnerDefaultArgs == SeqsUpTo({JStr("--yes"), JStr("--quiet")}, MaxArgs)
RunnerCommandArgs ==
  {[isArray |-> TRUE, items |-> q] : q \in SeqsUpTo({JStr("--fast"), JNum("2")}, MaxArgs)}
  \cup {[isArray |-> FALSE, items |-> <<JStr("--fast")>>]}
RunnerPrompts == {"fix the bug", "add a test"}

RunnerInit ==
  /\ InitStore
  /\ probe \in {[fn |-> "runAgent:call",
                  agent |-> [name |-> "alpha", command |-> "alpha-cli",
                             promptMode |-> m, defaultArgs |-> da],
                  task |-> [commandArgs |-> ca], prompt |-> pr] :
                  m \in {"argument", "stdin"}, da \in RunnerDefaultArgs,
                  ca \in RunnerCommandArgs, pr \in RunnerPrompts}

\* const result = runAgent(agent, task, prompt, runCwd)
Run ==
  /\ probe.fn = "runAgent:call"
  /\ probe' = [fn |-> "runAgent", agent |-> probe.agent, task |-> probe.task,
               prompt |-> probe.prompt,
               result |-> runAgent(probe.agent, probe.task, probe.prompt)]
  /\ UNCHANGED <<files, nextIno, submitted, log, runs, proc, starts, execs, stop,
                 signals>>

RunnerNext == Run
RunnerSpec == RunnerInit /\ [][RunnerNext]_vars

\* ---------------------------------------------------------------- claims
Running(d) == proc[d].pc \notin {"stopped", "exited"}
Holding(d) == proc[d].pc \in {"handle", "run", "move"}
BetweenIterations == \A d \in Daemons : proc[d].pc \in {"stopped", "exited", "top"}
FilesOf(fs, k) == {f \in fs : f.origin = k}
Claimed(d) == At(files, "processing", proc[d].fileName)

\* C1: at every point between iterations, every task file ever placed in
\* inbox is in exactly one of inbox, processing, completed, failed.
C1_ExactlyOneDirectory ==
  BetweenIterations =>
    \A k \in 1..submitted : Cardinality({f.dir : f \in FilesOf(files, k)}) = 1

\* C2: a claim is the rename inbox -> processing.  A successful rename takes
\* the file out of inbox (so every other daemon renaming the same inbox file
\* fails) and puts it, unchanged, under the same name in processing, held by
\* this daemon alone; a failed rename ends the iteration and changes no
\* file, no event and no run directory.
C2_ClaimByRename ==
  [][\A d \in Daemons : Claim(d) =>
       LET n == proc[d].fileName IN
       IF Exists(files, "inbox", n)
       THEN /\ ~Exists(files', "inbox", n)
            /\ \A f \in At(files, "inbox", n) :
                 At(files', "processing", n) = {[f EXCEPT !.dir = "processing"]}
            /\ proc'[d].pc = "handle"
            /\ \A e \in Daemons \ {d} : proc'[e] = proc[e]
            /\ log' = log /\ runs' = runs
       ELSE /\ files' = files /\ log' = log /\ runs' = runs
            /\ proc'[d].pc = "top" /\ proc'[d].ret = "lost"]_vars

\* Two daemons chose the same inbox file; one holds it, the other one's rename
\* has failed.
C2_Witness ==
  \E d, e \in Daemons :
    /\ d # e
    /\ Holding(d) /\ Claimed(d) # {}
    /\ proc[e].pc = "top" /\ proc[e].ret = "lost"

\* C3: from its claim until it moves the file itself, the claiming daemon
\* alone owns the task: the file it took stays where its claim put it.
C3_ClaimIsExclusive ==
  \A d \in Daemons :
    Holding(d) /\ proc[d].pc # "move" =>
      \E f \in Claimed(d) : f.ino = proc[d].ino

\* The task as the daemon read it, and the claimed file's stamped target name.
EffOf(n) == IF n = Absent THEN FallbackAttempt ELSE n
Moved(f, dir, prefix) == [f EXCEPT !.dir = dir, !.name = PrefixedName(prefix, f.name)]

\* C4: when the agent of a claimed task (its file still at processingPath)
\* exits with a non-zero code, the task is re-queued (retrying event, file
\* rewritten with attempt + 1 and moved to inbox under a retry- name) exactly
\* when attempt + 1 < maxAttempts, maxAttempts being the task's own value and
\* else the configured default; otherwise it is moved to failed, unchanged,
\* with one failed event of reason exit_<code>.
C4_RetryOrFail ==
  [][\A d \in Daemons :
       /\ \A r \in AgentResults :
            (r.status # "0" /\ AgentExit(d, r) /\ Claimed(d) # {}) =>
              LET me == proc[d]
                  a == EffOf(me.task.attempt)
                  m == IF me.task.maxAttempts # Absent THEN me.task.maxAttempts
                       ELSE me.config.defaultMaxAttempts
              IN IF a + 1 < m
                 THEN /\ proc'[d].pc = "move"
                      /\ log' = log
                      /\ \A f \in Claimed(d) :
                           /\ \E g \in files' :
                                /\ g.ino = f.ino /\ g.dir = "processing" /\ g.name = f.name
                                /\ g.content.attempt = a + 1
                                /\ g.content.lastError # NoText
                                /\ g.content.lastTriedAt # ""
                                /\ g.content.prompt = f.content.prompt
                                /\ g.content.maxAttempts = f.content.maxAttempts
                           /\ files' \ {g \in files' : g.ino = f.ino} = files \ {f}
                 ELSE /\ proc'[d].pc = "top"
                      /\ \A f \in Claimed(d) :
                           files' = (files \ {f}) \cup {Moved(f, "failed", StampPrefix(Len(log)))}
                      /\ Len(log') = Len(log) + 1
                      /\ log'[Len(log')].status = "failed"
                      /\ log'[Len(log')].reason = ExitReason(r.status)
       /\ (Requeue(d) /\ Claimed(d) # {}) =>
            /\ proc'[d].pc = "top"
            /\ \A f \in Claimed(d) :
                 /\ Moved(f, "inbox", RetryPrefix(Len(log))) \in files'
                 /\ files \ {f} \subseteq files'
            /\ Len(log') = Len(log) + 1
            /\ log'[Len(log')].status = "retrying"
            /\ log'[Len(log')].attempt = proc[d].task.attempt]_vars

\* A task was re-queued after a failed attempt and failed for good on the
\* next one.
C4_Witness ==
  \E i, j \in 1..Len(log) :
    /\ i < j
    /\ log[i].status = "retrying" /\ log[i].attempt = 1
    /\ log[j].status = "failed" /\ log[j].reason = "exit_1"
    /\ \E f \in InDir(files, "failed") : f.content.attempt = 1

\* C5: the attempt field of a task file never decreases; it grows by exactly
\* 1 in the rewrite of a retry and is changed by no other step (claim,
\* recovery, completion, failure).
C5_AttemptMonotone ==
  [][/\ \A f \in files : \A g \in files' :
          g.ino = f.ino /\ g.content.attempt # f.content.attempt =>
            /\ g.content.attempt = EffOf(f.content.attempt) + 1
            /\ \E d \in Daemons :
                 /\ proc[d].pc = "run" /\ proc'[d].pc = "move"
                 /\ f \in Claimed(d)
     /\ \A d \in Daemons :
          proc[d].pc = "run" /\ proc'[d].pc = "move" =>
            \A g \in At(files', "processing", proc[d].fileName) :
              g.content.attempt = EffOf(proc[d].task.attempt) + 1]_vars

\* A file whose attempt was raised by a retry has been recovered by a
\* startup, its attempt still the raised one.
C5_Witness ==
  \E f \in files :
    /\ f.content.attempt = 1
    /\ Len(f.name) >= 3
    /\ f.name[1] = RecoveredPrefix /\ f.name[2][1] = "retry"

\* C6: every inbox file of a task created by the submit command satisfies
\* attempt < maxAttempts.
C6_InboxAttemptBelowMax ==
  \A f \in InDir(files, "inbox") :
    f.viaSubmit => EffOf(f.content.attempt) < f.content.maxAttempts

\* A submitted task with two attempts is back in inbox for its last one.
C6_Witness ==
  \E f \in InDir(files, "inbox") :
    /\ f.viaSubmit
    /\ f.name[1][1] = "retry"
    /\ f.content.attempt = 1 /\ f.content.maxAttempts = SubmitMaxAttempts

\* C7: startup recovery moves every file of processing to inbox under
\* recovered-<name> with its content unchanged, leaves processing empty,
\* appends no event and changes no other file.
C7_RecoveryFrame ==
  [][\A d \in Daemons : Start(d) =>
       /\ InDir(files', "processing") = {}
       /\ \A f \in InDir(files, "processing") :
            [f EXCEPT !.dir = "inbox", !.name = RecoveredName(f.name)] \in files'
       /\ \A f \in files : f.dir # "processing" => f \in files'
       /\ log' = log /\ runs' = runs]_vars

\* C8 as stated: a pending task for which no agent is loaded ends in inbox
\* under a waiting- prefixed filename.
C8_EndsUnderWaitingName ==
  [][\A d \in Daemons :
       ((\E cfg \in Configs : Iterate(d, << >>, cfg)) /\ InDir(files, "inbox") # {}) =>
         \E f \in InDir(files', "inbox") : f.name[1][1] = "waiting"]_vars

\* C8, amended: with no agent loaded a pending task is neither failed nor
\* claimed; it stays in inbox under its unchanged filename with its content
\* (attempt included) untouched, and no run directory and no event is
\* written.  No file ever gets a waiting- name.
C8_StaysUnclaimed ==
  /\ [](\A f \in files : \A i \in 1..Len(f.name) : f.name[i][1] # "waiting")
  /\ [][\A d \in Daemons :
          ((\E cfg \in Configs : Iterate(d, << >>, cfg)) /\ InDir(files, "inbox") # {}) =>
            /\ files' = files /\ runs' = runs /\ log' = log
            /\ proc'[d].pc = "top" /\ proc'[d].ret = "noagent"]_vars

\* An iteration has returned for want of an agent while a task is pending.
C8_Witness ==
  \E d \in Daemons :
    /\ proc[d].pc = "top" /\ proc[d].ret = "noagent"
    /\ InDir(files, "inbox") # {}
    /\ log = << >> /\ runs = {}

\* C9: a claimed file (still at processingPath) that is not valid JSON, or
\* has no non-empty prompt, is moved straight to failed with one failed
\* event of reason invalid_json resp. missing_prompt; no run directory is
\* created and the file is not rewritten.
C9_InvalidTaskFails ==
  [][\A d \in Daemons : \A cfg \in Configs : \A wtOk \in BOOLEAN :
       Handle(d, cfg, wtOk) =>
         \A f \in Claimed(d) :
           (f.content.json # "object" \/ f.content.prompt # "ok") =>
             /\ files' = (files \ {f}) \cup {Moved(f, "failed", StampPrefix(Len(log)))}
             /\ Len(log') = Len(log) + 1
             /\ log'[Len(log')].status = "failed"
             /\ log'[Len(log')].reason =
                  (IF f.content.json = "invalid" THEN "invalid_json" ELSE "missing_prompt")
             /\ runs' = runs
             /\ proc'[d].pc = "top"]_vars

\* C10: when the agent of a claimed task (its file still at processingPath)
\* exits with code 0, the file moves from processing to completed, unchanged,
\* one completed event is appended and the run summary records completed
\* with exit code 0, whatever attempt and maxAttempts are; a file in
\* completed is never moved or rewritten afterwards.
C10_ExitZeroCompletes ==
  [][/\ \A d \in Daemons : \A r \in AgentResults :
          (r.status = "0" /\ AgentExit(d, r) /\ Claimed(d) # {}) =>
            /\ \A f \in Claimed(d) :
                 files' = (files \ {f}) \cup {Moved(f, "completed", StampPrefix(Len(log)))}
            /\ Len(log') = Len(log) + 1
            /\ log'[Len(log')].status = "completed"
            /\ \E run \in runs' :
                 /\ run.id = proc[d].task.id
                 /\ run.summary = "completed" /\ run.exitCode = "0"
            /\ proc'[d].pc = "top"
     /\ \A f \in InDir(files, "completed") : f \in files']_vars

\* A task on its second attempt has completed.
C10_Witness ==
  \E f \in InDir(files, "completed") :
    /\ f.content.attempt = 1
    /\ \E i \in 1..Len(log) : log[i].status = "completed"
    /\ \E run \in runs : run.summary = "completed" /\ run.exitCode = "0"

\* The record appended last to daemon.log.
LastEvent(lg) == lg[Len(lg)]

\* C11: a task with maxAttempts = 1 and attempt 0 whose execution fails (its
\* file still at processingPath) moves straight from processing to failed
\* with attempt 0; a submitted task with maxAttempts = 1 never gets a retry-
\* name, a retrying event or an attempt other than 0.
C11_SingleAttemptFailsDirectly ==
  /\ [](\A f \in files :
          f.viaSubmit /\ f.content.maxAttempts = 1 =>
            /\ f.content.attempt = 0
            /\ \A i \in 1..Len(f.name) : f.name[i][1] # "retry"
            /\ \A i \in 1..Len(log) :
                 ~(log[i].status = "retrying" /\ log[i].task = f.origin))
  /\ [][\A d \in Daemons : \A r \in AgentResults :
          (/\ r.status # "0" /\ AgentExit(d, r) /\ Claimed(d) # {}
           /\ EffOf(proc[d].task.attempt) = 0
           /\ EffMaxAttempts(proc[d].task, proc[d].config) = 1) =>
            /\ \A f \in Claimed(d) :
                 files' = (files \ {f}) \cup {Moved(f, "failed", StampPrefix(Len(log)))}
            /\ Len(log') = Len(log) + 1
            /\ LastEvent(log').status = "failed"
            /\ LastEvent(log').reason = ExitReason(r.status)
            /\ proc'[d].pc = "top"]_vars

\* A submitted single-attempt task has failed after its agent was killed by
\* a signal.
C11_Witness ==
  \E f \in InDir(files, "failed") :
    /\ f.viaSubmit /\ f.content.maxAttempts = 1 /\ f.content.attempt = 0
    /\ \E i \in 1..Len(log) :
         log[i].reason = "exit_null" /\ log[i].task = f.origin

\* C12: with no daemon killed, a submitted task with maxAttempts = N none of
\* whose executions succeeds is executed at most N times, and a failed
\* event of reason exit_<code> is written for it only after N executions.
C12_ExactlyNExecutions ==
  \A f \in files :
    (f.viaSubmit /\ \A i \in 1..Len(log) : log[i].status # "completed") =>
      /\ execs[f.origin] <= f.content.maxAttempts
      /\ \A i \in 1..Len(log) :
           (/\ log[i].status = "failed" /\ log[i].task = f.origin
            /\ log[i].reason \in {"exit_1", "exit_null"}) =>
             execs[f.origin] >= f.content.maxAttempts

\* C13: a file in completed or failed is never moved, renamed, rewritten or
\* deleted by any step of any daemon.
C13_TerminalFilesStay ==
  [][\A f \in files : f.dir \in {"completed", "failed"} => f \in files']_vars

\* A terminal file has outlived a later stamped move and a later startup
\* recovery.
C13_Witness ==
  \E f \in files :
    /\ f.dir \in {"completed", "failed"}
    /\ f.name[1][1] = "stamp" /\ f.name[1][2] + 1 < Len(log)
    /\ \E g \in InDir(files, "inbox") : g.name[1] = RecoveredPrefix

\* The selection the routing rules describe, for a non-empty registry.
FirstOf(P) == CHOOSE i \in P : \A j \in P : i <= j
RefPick(task, agents, config) ==
  LET byName  == {i \in 1..Len(agents) : agents[i].name = task.agent}
      byTool  == {i \in 1..Len(agents) : agents[i].command = task.tool}
      order   == config.routingOrder
      present == {k \in 1..Len(order) :
                    \E i \in 1..Len(agents) : agents[i].name = order[k]}
  IN IF byName # {} THEN agents[FirstOf(byName)]
     ELSE IF byTool # {} THEN agents[FirstOf(byTool)]
     ELSE IF present # {}
     THEN agents[FirstOf({i \in 1..Len(agents) :
                            agents[i].name = order[FirstOf(present)]})]
     ELSE agents[1]

\* C14: for every task, registry and configuration, pickAgent returns null
\* exactly for the empty registry and otherwise the agent of the routing
\* rules (task.agent by name, else first agent with command task.tool, else
\* earliest present entry of routingOrder, else the first agent), which is a
\* member of the registry.
C14_RouterEqualsReference ==
  probe.fn = "pickAgent" =>
    /\ (probe.result = NoAgent) <=> (probe.agents = << >>)
    /\ probe.agents # << >> =>
         /\ probe.result = RefPick(probe.task, probe.agents, probe.config)
         /\ probe.result \in Range(probe.agents)

\* A task naming an agent and another agent's tool, with a routing order
\* naming other agents, was routed to the agent it names.
C14_Witness ==
  /\ probe.fn = "pickAgent"
  /\ probe.task.agent = "beta" /\ probe.task.tool = "alpha-cli"
  /\ Len(probe.agents) = 2 /\ probe.agents[1].name = "gamma"
  /\ probe.config.routingOrder = <<"alpha", "gamma">>
  /\ probe.result.name = "beta"

\* C15: when a local and a shared agent file have the same name, the loaded
\* registry never holds the shared file's definition under that name.
C15_LocalAlwaysWins ==
  probe.fn = "loadAgents" =>
    \A g \in Range(probe.global), l \in Range(probe.local) :
      (g.name = l.name /\ g.name # "") =>
        \A a \in Range(probe.result) : a.name = g.name => a.dir # "shared"

\* C16: no failure during the handling of a claimed task ends the daemon
\* process: a daemon never leaves the loop through an uncaught exception.
C16_HandlingNeverEndsDaemon ==
  \A d \in Daemons : proc[d].pc # "exited"

\* C17: at a loop top reached after a stop request was made, the daemon
\* does not go on to claim a task.
C17_NoClaimAfterStopRequest ==
  [][\A d \in Daemons :
       (stop[d] # "none" /\ proc[d].pc = "top") => proc'[d].pc # "claim"]_vars

\* C18: an iteration that ends without having claimed a task (inbox empty,
\* no agent loaded, or the claiming rename lost) is followed by a sleep of
\* the effective poll interval.
C18_SleepsUnlessClaimed ==
  [][\A d \in Daemons :
       (/\ proc[d].pc \in {"top", "claim"} /\ proc'[d].pc = "top"
        /\ proc'[d] # proc[d]) =>
         /\ proc'[d].ret = "slept"
         /\ proc'[d].poll = DefaultPollMs]_vars

\* C19: when worktree creation fails for a claimed valid task (its file
\* still at processingPath), no agent process is spawned, the file moves
\* unchanged from processing to failed, and a failed event of reason
\* runtime_exception with the git diagnostic is appended; nothing is retried.
C19_WorktreeFailureFails ==
  [][\A d \in Daemons : \A cfg \in Configs :
       Handle(d, cfg, FALSE) =>
         \A f \in Claimed(d) :
           (/\ f.content.json = "object" /\ f.content.prompt = "ok"
            /\ proc[d].agents # << >>
            /\ pickAgent(f.content, proc[d].agents, cfg).useWorktree) =>
             /\ files' = (files \ {f}) \cup {Moved(f, "failed", StampPrefix(Len(log)))}
             /\ Len(log') = Len(log) + 1
             /\ LastEvent(log').status = "failed"
             /\ LastEvent(log').reason = "runtime_exception"
             /\ LastEvent(log').error = WorktreeError
             /\ execs' = execs
             /\ proc'[d].pc = "top"]_vars

\* A submitted task with two attempts allowed has failed on a worktree
\* failure without any execution.
C19_Witness ==
  \E f \in InDir(files, "failed") :
    /\ f.viaSubmit /\ f.content.attempt = 0
    /\ f.content.maxAttempts = SubmitMaxAttempts
    /\ execs[f.origin] = 0
    /\ \E i \in 1..Len(log) :
         log[i].reason = "runtime_exception" /\ log[i].file = f.name

\* The last n characters of a text (the whole text when it is shorter).
LastChars(text, n) ==
  IF text.len <= n THEN text ELSE Text(text.src, text.from + text.len - n, n)

\* C20: the lastError written for a retry is the last 5,000 characters of
\* the execution's standard error.
C20_LastErrorIsTailOfStderr ==
  [][\A d \in Daemons : \A r \in AgentResults :
       (AgentExit(d, r) /\ proc'[d].pc = "move") =>
         \A g \in At(files', "processing", proc[d].fileName) :
           g.content.lastError = LastChars(r.stderr, LastErrorLimit)]_vars

\* The files that a step brings into completed or failed, or into inbox
\* under a retry- name.
IsRetryName(name) == name[1][1] = "retry"
Transitioned ==
  {f \in files' \ files :
     \/ f.dir \in {"completed", "failed"}
     \/ f.dir = "inbox" /\ IsRetryName(f.name)}
StatusOf(f) == IF f.dir = "inbox" THEN "retrying" ELSE f.dir

C22_CleanupFollowsConfig ==
  [][\A d \in Daemons :
       /\ \A r \in AgentResults :
            (AgentExit(d, r) /\ proc[d].worktree) =>
              \A f \in Transitioned :
                proc'[d].cleanup =
                  (IF f.dir = "completed" THEN proc[d].config.cleanupWorktreeOnSuccess
                   ELSE proc[d].config.cleanupWorktreeOnFailure)
       /\ \A cfg \in CleanupConfigs :
            \* a failure after createWorktree has returned
            (/\ Handle(d, cfg, TRUE)
             /\ \E f \in Claimed(d) :
                  /\ f.content.json = "object" /\ f.content.prompt = "ok"
                  /\ pickAgent(f.content, proc[d].agents, cfg).useWorktree
             /\ \E f \in Transitioned : f.dir = "failed") =>
              proc'[d].cleanup = cfg.cleanupWorktreeOnFailure
       /\ proc'[d].cleanup =>
            /\ Transitioned # {} /\ Len(log') = Len(log) + 1
            /\ \/ proc[d].config.cleanupWorktreeOnSuccess
               \/ proc[d].config.cleanupWorktreeOnFailure]_vars

\* C23: when the agent of a claimed task is started, the run directory
\* holds the task as read (attempt not incremented) and no summary yet; when
\* the file of a task for which an agent was selected leaves processing,
\* its run directory holds a summary.json whose status is completed exactly
\* for exit code 0.
C23_RunDirectoryComplete ==
  [][\A d \in Daemons :
       /\ (proc[d].pc = "handle" /\ proc'[d].pc = "run") =>
            \E r \in runs' :
              /\ r.id = proc'[d].task.id /\ r.attempt = proc'[d].task.attempt
              /\ r.summary = ""
              /\ \A f \in Claimed(d) : f.content.attempt = r.attempt
       /\ \A f \in Transitioned :
            LastEvent(log').reason \notin {"invalid_json", "missing_prompt"} =>
              \E r \in runs' :
                /\ r.id = f.content.id
                /\ r.summary \in {"completed", "failed"}
                /\ (r.summary = "completed") <=> (r.exitCode = "0")]_vars

\* C24: a daemon process that runs alone holds at most one file in
\* processing; processing is empty whenever the daemon is at the top of its
\* loop or about to claim, and while its agent runs the only file in
\* processing is the one it claimed.
C24_OneTaskAtATime ==
  /\ Cardinality(InDir(files, "processing")) <= 1
  /\ proc["d1"].pc \in {"top", "claim"} => InDir(files, "processing") = {}
  /\ proc["d1"].pc \in {"handle", "run", "move"} =>
       /\ Claimed("d1") # {}
       /\ InDir(files, "processing") = Claimed("d1")

\* The daemon is about to claim a second task after the first one has left
\* processing for completed or failed.
C24_Witness ==
  /\ proc["d1"].pc = "claim"
  /\ \E f \in files : f.dir \in {"completed", "failed"}
  /\ execs[1] > 0
  /\ InDir(files, "processing") = {}

\* The order of file names by UTF-16 code units: digits, upper-case
\* letters, lower-case letters.
CodeUnitRank(tok) ==
  CASE tok[1] = "base"      -> 0
    [] tok[1] = "stamp"     -> 0
    [] tok[1] = "Task"      -> 1
    [] tok[1] = "recovered" -> 2
    [] tok[1] = "retry"     -> 3
    [] tok[1] = "waiting"   -> 4
CodeUnitLess(a, b) ==
  \E i \in 1..Len(a) :
     /\ i <= Len(b)
     /\ \A j \in 1..(i - 1) : a[j] = b[j]
     /\ \/ CodeUnitRank(a[i]) < CodeUnitRank(b[i])
        \/ CodeUnitRank(a[i]) = CodeUnitRank(b[i]) /\ a[i][2] < b[i][2]

\* C26: the file an iteration sets out to claim is the lexicographically
\* least name of inbox; the claim touches no other file of inbox; a
\* submitted file is not claimed while an earlier submitted one is in inbox.
C26_ClaimsLexicographicallyLeast ==
  [][\A d \in Daemons :
       /\ (proc[d].pc = "top" /\ proc'[d].pc = "claim") =>
            \A n \in listFiles(files, "inbox") \ {proc'[d].fileName} :
              CodeUnitLess(proc'[d].fileName, n)
       /\ Claim(d) =>
            /\ \A f \in InDir(files, "inbox") :
                 f.name # proc[d].fileName => f \in files'
            /\ \A f \in At(files, "inbox", proc[d].fileName) :
                 Len(f.name) = 1 /\ f.name[1][1] = "base" =>
                   \A g \in InDir(files, "inbox") :
                     Len(g.name) = 1 /\ g.name[1][1] = "base" =>
                       f.name[1][2] <= g.name[1][2]]_vars

\* C29: an iteration that finds no agent loaded leaves every file, the
\* event log, the run directories and the execution counts as they are and
\* ends at the loop top without a claim and without a worktree, also when
\* the first file of inbox does not parse or has no prompt.
C29_EmptyRegistryChangesNothing ==
  [][\A d \in Daemons : \A cfg \in CleanupConfigs :
       Iterate(d, << >>, cfg) =>
         /\ files' = files /\ log' = log /\ runs' = runs /\ execs' = execs
         /\ proc'[d].pc = "top" /\ proc'[d].fileName = << >>
         /\ ~proc'[d].worktree /\ ~proc'[d].cleanup]_vars

\* An iteration without agents has returned while a file that does not
\* parse is first in inbox; the file is still there and nothing was logged.
C29_Witness ==
  \E d \in Daemons :
    /\ proc[d].pc = "top" /\ proc[d].ret = "noagent"
    /\ \E f \in InDir(files, "inbox") :
         /\ f.content.json = "invalid"
         /\ f.name = Least(listFiles(files, "inbox"))
    /\ InDir(files, "failed") = {}
    /\ log = << >>

\* A file the loader rejects for its content: it does not parse, is not an
\* object, or lacks a name or a command.
FailsToLoad(agentFile) ==
  agentFile.json # "object" \/ agentFile.name = "" \/ agentFile.command = ""
Loads(agentFile) == ~FailsToLoad(agentFile)

\* C25: the registry loadAgents returns holds at most one entry per name;
\* every entry has a non-empty name and command, is not disabled, has a
\* command that resolves, promptMode "argument" or "stdin", defaultArgs a
\* list of strings and a boolean useWorktree; and the registry is the one
\* the same directories give without the files that fail to parse or
\* validate.
C25_RegistryWellFormed ==
  probe.fn = "loadAgents" =>
    /\ \A i, j \in 1..Len(probe.result) :
         probe.result[i].name = probe.result[j].name => i = j
    /\ \A a \in Range(probe.result) :
         /\ a.name # "" /\ a.command # ""
         /\ a.enabled # FALSE
         /\ commandExists(a.command)
         /\ a.promptMode \in {"argument", "stdin"}
         /\ \A k \in 1..Len(a.defaultArgs) : a.defaultArgs[k].type = "string"
         /\ a.useWorktree \in BOOLEAN
    /\ probe.result = loadAgents(agentSources(SelectSeq(probe.global, Loads),
                                              SelectSeq(probe.local, Loads)))

\* A load of a shared directory with a file that does not parse followed by
\* an agent file with odd field values, and a local directory with a stdin
\* agent: both agents are loaded with normalised fields.
C25_Witness ==
  /\ probe.fn = "loadAgents"
  /\ probe.global = <<UnparsableFile("shared"), OddFile("shared")>>
  /\ probe.local = <<StdinFile("local")>>
  /\ Len(probe.result) = 2
  /\ probe.result[1].name = "beta" /\ probe.result[1].promptMode = "argument"
  /\ probe.result[1].defaultArgs = << >> /\ probe.result[1].useWorktree
  /\ probe.result[2].name = "alpha" /\ probe.result[2].promptMode = "stdin"
  /\ probe.result[2].defaultArgs = <<JStr("--yes"), JStr("1")>>
  /\ ~probe.result[2].useWorktree

\* The task's extra arguments: the items of commandArgs when it is a list.
CommandArgsOf(task) ==
  IF task.commandArgs.isArray THEN task.commandArgs.items ELSE << >>

\* C27: the argument vector of the agent process is the agent's defaultArgs,
\* then the task's commandArgs in their order, then, in argument mode, the
\* prompt as the one last argument; in stdin mode the prompt is the input of
\* the process and no argument holds it.
C27_ArgumentVector ==
  probe.fn = "runAgent" =>
    LET d == probe.agent.defaultArgs
        c == CommandArgsOf(probe.task)
        r == probe.result
    IN /\ \A i \in 1..Len(d) : Len(r.argv) >= i /\ r.argv[i] = d[i]
       /\ \A i \in 1..Len(c) :
            /\ Len(r.argv) >= Len(d) + i
            /\ r.argv[Len(d) + i].text = c[i].text
       /\ probe.agent.promptMode = "argument" =>
            /\ Len(r.argv) = Len(d) + Len(c) + 1
            /\ r.argv[Len(r.argv)] = JStr(probe.prompt)
            /\ ~r.stdin
       /\ probe.agent.promptMode = "stdin" =>
            /\ Len(r.argv) = Len(d) + Len(c)
            /\ r.stdin /\ r.input = probe.prompt
            /\ \A i \in 1..Len(r.argv) : r.argv[i].text # probe.prompt

\* A run in argument mode with two default arguments and two task
\* arguments, one of them a number.
C27_Witness ==
  /\ probe.fn = "runAgent"
  /\ probe.agent.promptMode = "argument"
  /\ probe.agent.defaultArgs = <<JStr("--yes"), JStr("--quiet")>>
  /\ probe.task.commandArgs = [isArray |-> TRUE, items |-> <<JStr("--fast"), JNum("2")>>]
  /\ probe.result.argv = <<JStr("--yes"), JStr("--quiet"), JStr("--fast"), JStr("2"),
                           JStr(probe.prompt)>>

====
